---- MODULE Spec2Model ----
(***************************************************************************)
(* A model of the rj JSON parser (src/src/parse.rs), its value model       *)
(* (src/src/value.rs) and the facade (src/src/lib.rs).                     *)
(*                                                                         *)
(* Text is a sequence of Unicode scalar values (naturals); a &str slice is *)
(* the sequence of its chars, and byte offsets are computed from len_utf8  *)
(* as the code computes them.  The parser is a pure function, so it is a   *)
(* family of RECURSIVE operators; the specifications below build input     *)
(* texts step by step and then apply parse (and format) to them.           *)
(***************************************************************************)
EXTENDS Integers, Sequences, FiniteSets, TLC

VARIABLES input, pc, result, gen, formatted, result2

vars == <<input, pc, result, gen, formatted, result2>>

(***************************************************************************)
(* Characters named in the source.                                         *)
(***************************************************************************)
Space == 32
Tab == 9
LineFeed == 10
CarriageReturn == 13
Backspace == 8
FormFeed == 12
Quote == 34
Backslash == 92
Solidus == 47
LBrace == 123
RBrace == 125
LBracket == 91
RBracket == 93
Colon == 58
Comma == 44
Minus == 45
Plus == 43
Dot == 46
LowerE == 101
UpperE == 69
Digit0 == 48
Digit9 == 57

LitFalse == <<102, 97, 108, 115, 101>>
LitNull == <<110, 117, 108, 108>>
LitTrue == <<116, 114, 117, 101>>

(***************************************************************************)
(* &str helpers: byte lengths and byte slicing.                            *)
(***************************************************************************)
len_utf8(c) == IF c < 128 THEN 1 ELSE IF c < 2048 THEN 2 ELSE IF c < 65536 THEN 3 ELSE 4

RECURSIVE ByteLen(_)
ByteLen(s) == IF s = <<>> THEN 0 ELSE len_utf8(Head(s)) + ByteLen(Tail(s))

\* The value of a slice that does not start on a char boundary (Rust panics).
SliceFault == <<-1>>

\* &s[pos..] with pos a byte offset.
RECURSIVE ByteSliceFrom(_, _)
ByteSliceFrom(s, pos) ==
    IF pos = 0 THEN s
    ELSE IF s = <<>> \/ len_utf8(Head(s)) > pos THEN SliceFault
    ELSE ByteSliceFrom(Tail(s), pos - len_utf8(Head(s)))

StartsWith(s, p) == Len(s) >= Len(p) /\ SubSeq(s, 1, Len(p)) = p
StartsWithChar(s, c) == s # <<>> /\ Head(s) = c
Drop(s, n) == SubSeq(s, n + 1, Len(s))

(***************************************************************************)
(* Value (src/src/value.rs) and Result / Error (src/src/parse.rs).         *)
(* An Object's IndexMap is the sequence of its <<key, value>> entries in   *)
(* iteration order.                                                        *)
(***************************************************************************)
String(s) == [type |-> "String", s |-> s]
Number(n) == [type |-> "Number", n |-> n]
Boolean(b) == [type |-> "Boolean", b |-> b]
Null == [type |-> "Null"]
Object(m) == [type |-> "Object", entries |-> m]
Array(a) == [type |-> "Array", items |-> a]

Ok(v, rest) == [kind |-> "Ok", v |-> v, rest |-> rest]
Err(e) == [kind |-> "Err", err |-> e]
\* unwrap() on None / Err, unreachable!(), slicing off a char boundary
Panic(why) == [kind |-> "Panic", why |-> why]

\* An Error: its variant, its char payload (0 when it has none), and its
\* String payload as the format! template and the text put in place of {}.
Error(variant, ch, msg, arg) == [variant |-> variant, ch |-> ch, msg |-> msg, arg |-> arg]
UnexpectedToken(msg, arg) == Error("UnexpectedToken", 0, msg, arg)
MissingExpectedChar(ch, text) == Error("MissingExpectedChar", ch, "{}", text)
UnterminatedString == Error("UnterminatedString", 0, "", <<>>)
InvalidEscapeSequence(msg, arg) == Error("InvalidEscapeSequence", 0, msg, arg)
InvalidUnicodeEscape == Error("InvalidUnicodeEscape", 0, "", <<>>)
InvalidNumberFormat(msg) == Error("InvalidNumberFormat", 0, msg, <<>>)
TrailingCharacters(msg, arg) == Error("TrailingCharacters", 0, msg, arg)

(***************************************************************************)
(* eat_whitespace                                                          *)
(***************************************************************************)
\* is_whitespace without the tab
is_whitespace_no_tab(c) == c = 32 \/ c = 10 \/ c = 13

is_whitespace(c) == c = 32 \/ c = 9 \/ c = 10 \/ c = 13

\* pos after the for loop of eat_whitespace
RECURSIVE WhitespacePos(_)
WhitespacePos(s) ==
    IF s = <<>> \/ ~is_whitespace(Head(s)) THEN 0
    ELSE len_utf8(Head(s)) + WhitespacePos(Tail(s))

eat_whitespace(s) == ByteSliceFrom(s, WhitespacePos(s))

(***************************************************************************)
(* f64: a finite double is held as the decimal it is nearest to,           *)
(* digits * 10^exp with digits free of leading and trailing zeros (zero is *)
(* the empty digits with exp 0), and its sign.  Two decimals of at most   *)
(* 15 significant digits inside the double range are the same double iff   *)
(* they are the same normalised decimal; the texts built below stay        *)
(* inside that range.                                                      *)
(***************************************************************************)
IsDigit(c) == c >= Digit0 /\ c <= Digit9

RECURSIVE DigitRun(_)
\* the length of the leading run of ASCII digits
DigitRun(s) == IF s = <<>> \/ ~IsDigit(Head(s)) THEN 0 ELSE 1 + DigitRun(Tail(s))

RECURSIVE DecimalValue(_)
DecimalValue(s) == IF s = <<>> THEN 0 ELSE DecimalValue(SubSeq(s, 1, Len(s) - 1)) * 10 + (s[Len(s)] - Digit0)

RECURSIVE StripLeadingZeros(_)
StripLeadingZeros(d) == IF d # <<>> /\ Head(d) = 0 THEN StripLeadingZeros(Tail(d)) ELSE d

RECURSIVE TrailingZeros(_)
TrailingZeros(d) == IF d # <<>> /\ d[Len(d)] = 0 THEN 1 + TrailingZeros(SubSeq(d, 1, Len(d) - 1)) ELSE 0

NormalF64(neg, digits, exp) ==
    LET d == StripLeadingZeros(digits)
        z == TrailingZeros(d)
    IN  IF d = <<>> THEN [neg |-> neg, digits |-> <<>>, exp |-> 0]
        ELSE [neg |-> neg, digits |-> SubSeq(d, 1, Len(d) - z), exp |-> exp + z]

\* the digits 0..9 the digit chars of s stand for
DigitValues(s) == [i \in 1..Len(s) |-> s[i] - Digit0]

F64Err == [ok |-> FALSE]

\* Sign? Digit+ : what follows the 'e' of an exponent
ParseExponent(s) ==
    LET neg == s # <<>> /\ Head(s) = Minus
        d == IF s # <<>> /\ (Head(s) = Plus \/ Head(s) = Minus) THEN Tail(s) ELSE s
    IN  IF d = <<>> \/ DigitRun(d) # Len(d) THEN F64Err
        ELSE [ok |-> TRUE, e |-> IF neg THEN -DecimalValue(d) ELSE DecimalValue(d)]

\* the digits before and after the '.', and the text left after them
ParseMantissa(int_digits, frac_digits, exp_text) ==
    IF int_digits = <<>> /\ frac_digits = <<>> THEN F64Err
    ELSE IF exp_text = <<>>
        THEN [ok |-> TRUE,
              val |-> NormalF64(FALSE, DigitValues(int_digits \o frac_digits), -Len(frac_digits))]
    ELSE IF Head(exp_text) # LowerE /\ Head(exp_text) # UpperE THEN F64Err
    ELSE LET x == ParseExponent(Tail(exp_text)) IN
        IF ~x.ok THEN F64Err
        ELSE [ok |-> TRUE,
              val |-> NormalF64(FALSE, DigitValues(int_digits \o frac_digits),
                                x.e - Len(frac_digits))]

\* the digits before the '.', and the text after them
ParseFraction(int_digits, rest) ==
    IF StartsWithChar(rest, Dot)
    THEN ParseMantissa(int_digits, SubSeq(Tail(rest), 1, DigitRun(Tail(rest))),
                       Drop(Tail(rest), DigitRun(Tail(rest))))
    ELSE ParseMantissa(int_digits, <<>>, rest)

\* <f64 as FromStr>::from_str on a text of digits, '.', 'e', 'E', '+', '-':
\*   Number ::= ( Digit+ | Digit+ '.' Digit* | Digit* '.' Digit+ ) Exp?
\*   Exp    ::= 'e' Sign? Digit+
\* [ok |-> FALSE] is Err(ParseFloatError).
ParseF64(buf) == ParseFraction(SubSeq(buf, 1, DigitRun(buf)), Drop(buf, DigitRun(buf)))

\* x * -1.0
NegateF64(x) == [x EXCEPT !.neg = ~x.neg]

\* f64's == : the two zeros are equal
F64Eq(x, y) == (x.digits = <<>> /\ y.digits = <<>>) \/ x = y

(***************************************************************************)
(* number                                                                  *)
(***************************************************************************)
\* The for loop of number over cur_input.chars(): the buffer it leaves, or
\* the error it returns.
RECURSIVE numberLoop(_, _, _)
numberLoop(chars, buf, enable_sign) ==
    IF chars = <<>> THEN [kind |-> "Buf", buf |-> buf]
    ELSE LET c == Head(chars) IN
        IF IsDigit(c) \/ c = Dot THEN numberLoop(Tail(chars), Append(buf, c), enable_sign)
        ELSE IF c = LowerE \/ c = UpperE THEN numberLoop(Tail(chars), Append(buf, c), TRUE)
        ELSE IF c = Minus \/ c = Plus THEN
            IF enable_sign THEN numberLoop(Tail(chars), Append(buf, c), FALSE)
            ELSE Err(InvalidNumberFormat("sign only allowed at the beginning of the number or immediately after 'e' or 'E' for exponents"))
        ELSE [kind |-> "Buf", buf |-> buf]

\* number returning the text it was given
number_keeps_rest(input0) ==
    LET t == eat_whitespace(input0)
        minus == StartsWithChar(t, Minus)
        cur_input == IF minus THEN Tail(t) ELSE t
        l == numberLoop(cur_input, <<>>, FALSE)
    IN  IF l.kind = "Err" THEN l
        ELSE IF ~StartsWith(cur_input, l.buf) THEN Panic("strip_prefix(&buf).unwrap()")
        ELSE LET f == ParseF64(l.buf)
             IN  IF ~f.ok THEN Panic("buf.parse::<f64>().unwrap()")
                 ELSE IF minus THEN Ok(Number(NegateF64(f.val)), input0)
                 ELSE Ok(Number(f.val), input0)

number(input0) ==
    LET t == eat_whitespace(input0)
        minus == StartsWithChar(t, Minus)
        cur_input == IF minus THEN Tail(t) ELSE t
        l == numberLoop(cur_input, <<>>, FALSE)
    IN  IF l.kind = "Err" THEN l
        ELSE IF ~StartsWith(cur_input, l.buf) THEN Panic("strip_prefix(&buf).unwrap()")
        ELSE LET rest == Drop(cur_input, Len(l.buf))
                 f == ParseF64(l.buf)
             IN  IF ~f.ok THEN Panic("buf.parse::<f64>().unwrap()")
                 ELSE IF minus THEN Ok(Number(NegateF64(f.val)), rest)
                 ELSE Ok(Number(f.val), rest)

(***************************************************************************)
(* string                                                                  *)
(***************************************************************************)
\* char::to_digit(16); -1 is None
to_digit16(c) ==
    IF c >= 48 /\ c <= 57 THEN c - 48
    ELSE IF c >= 97 /\ c <= 102 THEN c - 87
    ELSE IF c >= 65 /\ c <= 70 THEN c - 55
    ELSE -1

\* char::from_u32(v) is Some(v) unless v is a surrogate or beyond U+10FFFF
from_u32_is_some(v) == v >= 0 /\ v <= 1114111 /\ ~(v >= 55296 /\ v <= 57343)

\* The `for _ in 0..4` loop of the 'u' arm: n digits are still to be read,
\* i is the index in cur_input of the char the next chars.next() yields.
\* (hex_val << 4) | digit stays below 2^16 over four digits, far from u32's width.
RECURSIVE unicodeLoop(_, _, _, _)

\* unicodeLoop answering the end of the input as the string loop does
unicodeLoop_unterminated(cur_input, i, n, hex_val) ==
    IF n = 0 THEN [kind |-> "Hex", hex_val |-> hex_val, next |-> i]
    ELSE IF i > Len(cur_input) THEN Err(UnterminatedString)
    ELSE LET digit == to_digit16(cur_input[i]) IN
        IF digit = -1 THEN Err(InvalidUnicodeEscape)
        ELSE unicodeLoop(cur_input, i + 1, n - 1, hex_val * 16 + digit)

unicodeLoop(cur_input, i, n, hex_val) ==
    IF n = 0 THEN [kind |-> "Hex", hex_val |-> hex_val, next |-> i]
    ELSE IF i > Len(cur_input) THEN Err(InvalidUnicodeEscape)
    ELSE LET digit == to_digit16(cur_input[i]) IN
        IF digit = -1 THEN Err(InvalidUnicodeEscape)
        ELSE unicodeLoop(cur_input, i + 1, n - 1, hex_val * 16 + digit)

\* The escapes with a literal character: the pushed char, or -1
escape_char(c) ==
    IF c = Quote THEN Quote
    ELSE IF c = Backslash THEN Backslash
    ELSE IF c = Solidus THEN Solidus
    ELSE IF c = 98 THEN Backspace
    ELSE IF c = 102 THEN FormFeed
    ELSE IF c = 110 THEN LineFeed
    ELSE IF c = 114 THEN CarriageReturn
    ELSE IF c = 116 THEN Tab
    ELSE -1

\* The loop of string: i is the index in cur_input of the char the next
\* chars.next() yields, parsed_string what has been pushed so far.
RECURSIVE stringLoop(_, _, _, _)
stringLoop(input0, cur_input, i, parsed_string) ==
    IF i > Len(cur_input) THEN Err(UnterminatedString)
    ELSE LET c == cur_input[i]
             idx == ByteLen(SubSeq(cur_input, 1, i - 1))
             current_byte_pos == ByteLen(input0) - ByteLen(cur_input) + idx + len_utf8(c)
         IN
        IF c = Quote THEN
            LET rest == ByteSliceFrom(input0, current_byte_pos) IN
            IF rest = SliceFault THEN Panic("byte index is not a char boundary")
            ELSE Ok(String(parsed_string), rest)
        ELSE IF c = Backslash THEN
            IF i + 1 > Len(cur_input)
            THEN Err(InvalidEscapeSequence("Invalid escape sequence: '\\' at end of string.", <<>>))
            ELSE LET escaped_char == cur_input[i + 1] IN
                IF escape_char(escaped_char) # -1
                THEN stringLoop(input0, cur_input, i + 2, Append(parsed_string, escape_char(escaped_char)))
                ELSE IF escaped_char = 117 THEN
                    LET u == unicodeLoop(cur_input, i + 2, 4, 0) IN
                    IF u.kind = "Err" THEN u
                    ELSE IF ~from_u32_is_some(u.hex_val) THEN Err(InvalidUnicodeEscape)
                    ELSE stringLoop(input0, cur_input, u.next, Append(parsed_string, u.hex_val))
                ELSE Err(InvalidEscapeSequence("Invalid escape sequence: '\\{}'", <<escaped_char>>))
        ELSE IF c = LineFeed \/ c = CarriageReturn \/ c = Tab
        THEN Err(UnexpectedToken("Unescaped control character in string: '{}'", <<c>>))
        ELSE stringLoop(input0, cur_input, i + 1, Append(parsed_string, c))

string(input0) ==
    LET t == eat_whitespace(input0) IN
    IF ~StartsWithChar(t, Quote) THEN Err(MissingExpectedChar(Quote, input0))
    ELSE LET cur_input == Tail(t)
             w == eat_whitespace(cur_input)
         IN  IF StartsWithChar(w, Quote) THEN Ok(String(<<>>), Tail(w))
             ELSE stringLoop(input0, cur_input, 1, <<>>)

(***************************************************************************)
(* value, object, array, parse                                             *)
(***************************************************************************)
\* IndexMap::insert: a key already present keeps its position and takes the
\* new value; a new key is appended.
RECURSIVE IndexMapInsert(_, _, _)

\* an insert that moves a key already present to the end
IndexMapInsert_moved(m, key, v) ==
    SelectSeq(m, LAMBDA e : e[1] # key) \o << <<key, v>> >>

IndexMapInsert(m, key, v) ==
    IF m = <<>> THEN << <<key, v>> >>
    ELSE IF Head(m)[1] = key THEN << <<key, v>> >> \o Tail(m)
    ELSE <<Head(m)>> \o IndexMapInsert(Tail(m), key, v)

RECURSIVE value(_), object(_), objectLoop(_, _), array(_), arrayLoop(_, _)

value(input0) ==
    LET inp == eat_whitespace(input0) IN
    IF StartsWith(inp, LitFalse) THEN Ok(Boolean(FALSE), Drop(inp, Len(LitFalse)))
    ELSE IF StartsWith(inp, LitNull) THEN Ok(Null, Drop(inp, Len(LitNull)))
    ELSE IF StartsWith(inp, LitTrue) THEN Ok(Boolean(TRUE), Drop(inp, Len(LitTrue)))
    ELSE IF StartsWithChar(inp, LBrace) THEN object(inp)
    ELSE IF StartsWithChar(inp, LBracket) THEN array(inp)
    ELSE IF StartsWithChar(inp, Quote) THEN string(inp)
    ELSE IF StartsWithChar(inp, Minus) \/ (inp # <<>> /\ IsDigit(Head(inp))) THEN number(inp)
    ELSE Err(UnexpectedToken("Unexpected token: '{}'", inp))

\* objectLoop naming the rest after the whitespace it skipped
objectLoop_trimmed(cur_input, obj) ==
    LET k == string(eat_whitespace(cur_input)) IN
    IF k.kind # "Ok" THEN k
    ELSE IF k.v.type # "String" THEN Panic("string() should always return Value::String")
    ELSE LET key == k.v.s
             t == eat_whitespace(k.rest)
         IN
        IF ~StartsWithChar(t, Colon) THEN Err(MissingExpectedChar(Colon, t))
        ELSE LET r == value(Tail(t)) IN
            IF r.kind # "Ok" THEN r
            ELSE LET obj2 == IndexMapInsert(obj, key, r.v)
                     t2 == eat_whitespace(r.rest)
                 IN
                IF StartsWithChar(t2, Comma) THEN objectLoop(Tail(t2), obj2)
                ELSE IF StartsWithChar(t2, RBrace) THEN Ok(Object(obj2), Tail(t2))
                ELSE Err(UnexpectedToken("Expected ',' or '}' after object value. Found: '{}'", t2))

\* The loop of object: cur_input at the top of an iteration, obj so far.
objectLoop(cur_input, obj) ==
    LET k == string(eat_whitespace(cur_input)) IN
    IF k.kind # "Ok" THEN k
    ELSE IF k.v.type # "String" THEN Panic("string() should always return Value::String")
    ELSE LET key == k.v.s
             t == eat_whitespace(k.rest)
         IN
        IF ~StartsWithChar(t, Colon) THEN Err(MissingExpectedChar(Colon, k.rest))
        ELSE LET r == value(Tail(t)) IN
            IF r.kind # "Ok" THEN r
            ELSE LET obj2 == IndexMapInsert(obj, key, r.v)
                     t2 == eat_whitespace(r.rest)
                 IN
                IF StartsWithChar(t2, Comma) THEN objectLoop(Tail(t2), obj2)
                ELSE IF StartsWithChar(t2, RBrace) THEN Ok(Object(obj2), Tail(t2))
                ELSE Err(UnexpectedToken("Expected ',' or '}' after object value. Found: '{}'", r.rest))

object(input0) ==
    LET t == eat_whitespace(input0) IN
    IF ~StartsWithChar(t, LBrace) THEN Err(MissingExpectedChar(LBrace, input0))
    ELSE LET cur_input == Tail(t)
             w == eat_whitespace(cur_input)
         IN  IF StartsWithChar(w, RBrace) THEN Ok(Object(<<>>), Tail(w))
             ELSE objectLoop(cur_input, <<>>)

\* arrayLoop naming the rest after the whitespace it skipped
arrayLoop_trimmed(cur_input, values) ==
    LET t == eat_whitespace(cur_input) IN
    IF StartsWithChar(t, Comma) THEN
        LET r == value(Tail(t)) IN
        IF r.kind # "Ok" THEN r
        ELSE arrayLoop(r.rest, Append(values, r.v))
    ELSE IF StartsWithChar(t, RBracket) THEN Ok(Array(values), Tail(t))
    ELSE Err(MissingExpectedChar(RBracket, t))

\* The while loop of array and the closing bracket after it.
arrayLoop(cur_input, values) ==
    LET t == eat_whitespace(cur_input) IN
    IF StartsWithChar(t, Comma) THEN
        LET r == value(Tail(t)) IN
        IF r.kind # "Ok" THEN r
        ELSE arrayLoop(r.rest, Append(values, r.v))
    ELSE IF StartsWithChar(t, RBracket) THEN Ok(Array(values), Tail(t))
    ELSE Err(MissingExpectedChar(RBracket, cur_input))

array(input0) ==
    LET t == eat_whitespace(input0) IN
    IF ~StartsWithChar(t, LBracket) THEN Err(MissingExpectedChar(LBracket, input0))
    ELSE LET cur_input == Tail(t)
             w == eat_whitespace(cur_input)
         IN  IF StartsWithChar(w, RBracket) THEN Ok(Array(<<>>), Tail(w))
             ELSE LET r == value(cur_input) IN
                 IF r.kind # "Ok" THEN r
                 ELSE arrayLoop(r.rest, <<r.v>>)

\* parse with the whitespace after the value left in place
parse_untrimmed(text) ==
    LET r == value(text) IN
    IF r.kind # "Ok" THEN r
    ELSE IF r.rest # <<>>
        THEN Err(TrailingCharacters("Unexpected characters after JSON value: '{}'", r.rest))
        ELSE [kind |-> "Ok", v |-> r.v]

\* parse.rs parse; lib.rs parse forwards to it.  Ok carries the Value only.
parse(text) ==
    LET r == value(text) IN
    IF r.kind # "Ok" THEN r
    ELSE LET rest == eat_whitespace(r.rest) IN
        IF rest # <<>>
        THEN Err(TrailingCharacters("Unexpected characters after JSON value: '{}'", rest))
        ELSE [kind |-> "Ok", v |-> r.v]

(***************************************************************************)
(* The state: the input text being built, where the run is (pc), the       *)
(* Result of parse(input), and what the builder knows about the text it    *)
(* wrote (gen), which the properties compare the parser's answer with.     *)
(***************************************************************************)
NoResult == [kind |-> "None"]

GenInit(ctx, state) ==
    [ctx |-> ctx, state |-> state, expected |-> <<>>, defect |-> "none",
     members |-> <<>>, key |-> <<>>, sample |-> Null, mark |-> 0, n |-> 0, ws |-> 0]

InitWith(text, g) ==
    /\ input = text
    /\ pc = "build"
    /\ result = NoResult
    /\ gen = g
    /\ formatted = NoResult
    /\ result2 = NoResult

\* The call parse(input).
Parse ==
    /\ pc = "build"
    /\ pc' = "parsed"
    /\ result' = parse(input)
    /\ UNCHANGED <<input, gen, formatted, result2>>

ErrorKinds ==
    {"UnexpectedToken", "MissingExpectedChar", "UnterminatedString", "InvalidEscapeSequence",
     "InvalidUnicodeEscape", "InvalidNumberFormat", "TrailingCharacters"}

IsErr(r, variant) == r.kind = "Err" /\ r.err.variant = variant

(***************************************************************************)
(* SpecNum: number-like texts, one char at a time.                         *)
(***************************************************************************)
MaxNumLen == 4

NumChars == {Digit0, 49, Dot, LowerE, UpperE, Plus, Minus}

InitNum == InitWith(<<>>, GenInit("num", "number"))

AppendNumChar ==
    \E c \in NumChars :
        /\ pc = "build"
        /\ Len(input) < MaxNumLen
        /\ input = <<>> => (c = Minus \/ IsDigit(c))
        /\ input' = Append(input, c)
        /\ UNCHANGED <<pc, result, gen, formatted, result2>>

NextNum == AppendNumChar \/ Parse

SpecNum == InitNum /\ [][NextNum]_vars

\* The number token without its optional leading '-'.
Unsigned(s) == IF StartsWithChar(s, Minus) THEN Tail(s) ELSE s

\* RFC 8259 number: int [frac] [exp], int = 0 / digit1-9 *digit
IsJsonNumber(s) ==
    LET u == Unsigned(s)
        f == ParseF64(u)
        ni == DigitRun(u)
    IN  /\ f.ok
        /\ ni >= 1
        /\ (ni > 1 => u[1] # Digit0)
        /\ (ni < Len(u) /\ u[ni + 1] = Dot) => (ni + 1 < Len(u) /\ IsDigit(u[ni + 2]))

\* C1: parse fails with a typed Error on every malformed input and never
\* aborts: a number-like text that is not a JSON number (its buffer empty or
\* not a valid float included) gives Err with one of the seven Error kinds.
C1_MalformedIsTypedError ==
    (pc = "parsed" /\ ~IsJsonNumber(input)) =>
        (result.kind = "Err" /\ result.err.variant \in ErrorKinds)

\* A sign after the optional leading '-' that does not immediately follow
\* an 'e' or 'E'.
HasMisplacedSign(s) ==
    LET u == Unsigned(s) IN
    \E i \in 1..Len(u) :
        /\ u[i] \in {Plus, Minus}
        /\ (i = 1 \/ u[i - 1] \notin {LowerE, UpperE})

\* C7: in a number token a '+' or '-' after the optional leading '-' is
\* accepted only immediately after 'e' or 'E'; a sign anywhere else makes
\* parse fail with InvalidNumberFormat.
C7_MisplacedSignIsInvalidNumberFormat ==
    (pc = "parsed" /\ HasMisplacedSign(input)) => IsErr(result, "InvalidNumberFormat")

(***************************************************************************)
(* SpecStr: one string token, written item by item, as the whole text, as  *)
(* an object's key or as an array's element.  gen.expected is the text the *)
(* items stand for, gen.defect the first thing wrong with the body, and    *)
(* gen.state whether the closing quote has been written.                   *)
(***************************************************************************)
MaxItems == 2

Contexts == {"top", "key", "elem"}

ContextPrefix(ctx) ==
    IF ctx = "key" THEN <<LBrace>> ELSE IF ctx = "elem" THEN <<LBracket>> ELSE <<>>

\* what follows the closing quote: `:1}` after a key, `]` after an element
ContextSuffix(ctx) ==
    IF ctx = "key" THEN <<Colon, 49, RBrace>> ELSE IF ctx = "elem" THEN <<RBracket>> ELSE <<>>

One == [neg |-> FALSE, digits |-> <<1>>, exp |-> 0]

\* the Value of the whole text when the token's String is str
InContext(ctx, str) ==
    IF ctx = "key" THEN Object(<< <<str, Number(One)>> >>)
    ELSE IF ctx = "elem" THEN Array(<<String(str)>>)
    ELSE String(str)

InitStr ==
    \E ctx \in Contexts :
        InitWith(ContextPrefix(ctx) \o <<Quote>>, GenInit(ctx, "open"))

\* 'a', ' ', U+00E9 (two bytes), U+20AC (three bytes), '/'
PlainChars == {97, Space, 233, 8364, Solidus}

\* the char after the backslash, and the char the escape stands for
SimpleEscapes ==
    { <<Quote, Quote>>, <<Backslash, Backslash>>, <<Solidus, Solidus>>, <<98, Backspace>>,
      <<102, FormFeed>>, <<110, LineFeed>>, <<114, CarriageReturn>>, <<116, Tab>> }

\* four hex digits, and the scalar value they name: 0041, 0020, 00e9, 00E9, 20AC
UnicodeEscapes ==
    { <<<<48, 48, 52, 49>>, 65>>, <<<<48, 48, 50, 48>>, 32>>, <<<<48, 48, 101, 57>>, 233>>,
      <<<<48, 48, 69, 57>>, 233>>, <<<<50, 48, 65, 67>>, 8364>> }

RawControls == {LineFeed, CarriageReturn, Tab}

\* \x, \u00g0, \ud800 (a lone surrogate)
BadItems ==
    { <<<<Backslash, 120>>, "badescape">>,
      <<<<Backslash, 117, 48, 48, 103, 48>>, "badunicode">>,
      <<<<Backslash, 117, 100, 56, 48, 48>>, "badunicode">> }

\* an escape the text ends in the middle of: \, \u, \u00, \u004
TruncatedItems ==
    { <<<<Backslash>>, "truncescape">>,
      <<<<Backslash, 117>>, "truncunicode">>,
      <<<<Backslash, 117, 48, 48>>, "truncunicode">>,
      <<<<Backslash, 117, 48, 48, 52>>, "truncunicode">> }

CanAddItem == pc = "build" /\ gen.state = "open" /\ gen.defect = "none" /\ gen.n < MaxItems

AddItem(text, chars) ==
    /\ input' = input \o text
    /\ gen' = [gen EXCEPT !.expected = @ \o chars, !.n = @ + 1]
    /\ UNCHANGED <<pc, result, formatted, result2>>

AddDefect(text, chars, defect) ==
    /\ input' = input \o text
    /\ gen' = [gen EXCEPT !.expected = @ \o chars, !.n = @ + 1, !.defect = defect]
    /\ UNCHANGED <<pc, result, formatted, result2>>

AddPlain == \E c \in PlainChars : CanAddItem /\ AddItem(<<c>>, <<c>>)

AddEscape == \E e \in SimpleEscapes : CanAddItem /\ AddItem(<<Backslash, e[1]>>, <<e[2]>>)

AddUnicode == \E u \in UnicodeEscapes : CanAddItem /\ AddItem(<<Backslash, 117>> \o u[1], <<u[2]>>)

\* a raw line feed, carriage return or tab: the body keeps it
AddRawControl == \E c \in RawControls : CanAddItem /\ AddDefect(<<c>>, <<c>>, "rawctl")

AddBad == \E b \in BadItems : CanAddItem /\ AddDefect(b[1], <<>>, b[2])

\* the text ends here, inside an escape
AddTruncated == \E t \in TruncatedItems : CanAddItem /\ AddDefect(t[1], <<>>, t[2])

\* more body after a raw control character
AddAfterControl ==
    \E c \in PlainChars \cup RawControls :
        /\ pc = "build" /\ gen.state = "open" /\ gen.defect = "rawctl" /\ gen.n < MaxItems
        /\ AddDefect(<<c>>, <<c>>, "rawctl")

CloseString ==
    /\ pc = "build"
    /\ gen.state = "open"
    /\ gen.defect \in {"none", "rawctl", "badescape", "badunicode"}
    /\ input' = input \o <<Quote>> \o ContextSuffix(gen.ctx)
    /\ gen' = [gen EXCEPT !.state = "closed"]
    /\ UNCHANGED <<pc, result, formatted, result2>>

BuildStr ==
    \/ AddPlain
    \/ AddEscape
    \/ AddUnicode
    \/ AddRawControl
    \/ AddAfterControl
    \/ AddBad
    \/ AddTruncated
    \/ CloseString

NextStr == BuildStr \/ Parse

SpecStr == InitStr /\ [][NextStr]_vars

\* C4: a string token that parses successfully gives the String that is its
\* body with each escape replaced by the character it stands for and every
\* other character copied unchanged, in order.
C4_StringIsDecodedBody ==
    (pc = "parsed" /\ gen.state = "closed" /\ result.kind = "Ok") =>
        result.v = InContext(gen.ctx, gen.expected)

\* C5: a string token, as a value or as a key, whose body holds a raw line
\* feed, carriage return or tab before the closing quote makes parse fail
\* with UnexpectedToken.
C5_RawControlIsUnexpectedToken ==
    (pc = "parsed" /\ gen.state = "closed" /\ gen.defect = "rawctl") =>
        IsErr(result, "UnexpectedToken")

\* C6 as claimed: a string token that is opened and not closed before the
\* input ends, with nothing wrong in the body before that end, makes parse
\* fail with UnterminatedString.
C6_EndOfInputIsUnterminatedString ==
    (pc = "parsed" /\ gen.state = "open"
        /\ gen.defect \in {"none", "truncescape", "truncunicode"}) =>
        result = Err(UnterminatedString)

\* C6 as amended: the input ending inside an open string token, with nothing
\* wrong in the body before that end, is UnterminatedString when it ends
\* where a body character or a new escape could begin, InvalidEscapeSequence
\* when it ends right after a backslash, and InvalidUnicodeEscape when it
\* ends within the four hex digits of a \u escape.
C6_EndOfInputInString ==
    (pc = "parsed" /\ gen.state = "open") =>
        /\ gen.defect = "none" => result = Err(UnterminatedString)
        /\ gen.defect = "truncescape" =>
              result = Err(InvalidEscapeSequence("Invalid escape sequence: '\\' at end of string.", <<>>))
        /\ gen.defect = "truncunicode" => result = Err(InvalidUnicodeEscape)

\* an object key of two decoded characters left open, answered UnterminatedString
C6_Witness ==
    /\ pc = "parsed"
    /\ gen.state = "open"
    /\ gen.ctx = "key"
    /\ gen.defect = "none"
    /\ Len(gen.expected) = 2
    /\ result = Err(UnterminatedString)

(***************************************************************************)
(* Spec: one well-formed value followed by trailing characters.            *)
(* gen.sample is the Value of the text written, gen.mark where it ends.    *)
(***************************************************************************)
MaxTrail == 3

Two == [neg |-> FALSE, digits |-> <<2>>, exp |-> 0]

\* a text and its Value: {}  []  ""  "a"  null  true  false  1  -1.5e+1  {"a":[1]}
TopSamples ==
    { <<<<LBrace, RBrace>>, Object(<<>>)>>,
      <<<<LBracket, RBracket>>, Array(<<>>)>>,
      <<<<Quote, Quote>>, String(<<>>)>>,
      <<<<Quote, 97, Quote>>, String(<<97>>)>>,
      <<LitNull, Null>>,
      <<LitTrue, Boolean(TRUE)>>,
      <<LitFalse, Boolean(FALSE)>>,
      <<<<49>>, Number(One)>>,
      <<<<Minus, 49, Dot, 53, LowerE, Plus, 49>>,
        Number([neg |-> TRUE, digits |-> <<1, 5>>, exp |-> 0])>>,
      <<<<LBrace, Quote, 97, Quote, Colon, LBracket, 49, RBracket, RBrace>>,
        Object(<< <<(<<97>>), Array(<<Number(One)>>)>> >>)>> }

\* the four whitespace characters, 'x', '}', '"', U+00A0 and U+000B
TrailChars == {Space, Tab, LineFeed, CarriageReturn, 120, RBrace, Quote, 160, 11}

InitTop == InitWith(<<>>, GenInit("top", "start"))

PickValue ==
    \E v \in TopSamples :
        /\ pc = "build"
        /\ gen.state = "start"
        /\ input' = input \o v[1]
        /\ gen' = [gen EXCEPT !.state = "value", !.sample = v[2], !.mark = Len(input')]
        /\ UNCHANGED <<pc, result, formatted, result2>>

AppendTrail ==
    \E c \in TrailChars :
        /\ pc = "build"
        /\ gen.state = "value"
        /\ Len(input) - gen.mark < MaxTrail
        /\ input' = Append(input, c)
        /\ UNCHANGED <<pc, result, gen, formatted, result2>>

Next == PickValue \/ AppendTrail \/ Parse

Spec == InitTop /\ [][Next]_vars

WhitespaceChars == {Space, Tab, LineFeed, CarriageReturn}

AllWhitespace(s) == \A i \in 1..Len(s) : s[i] \in WhitespaceChars

\* s from its first character that is not one of the four
AfterLeadingWhitespace(s) ==
    LET first == CHOOSE i \in 1..Len(s) :
                    s[i] \notin WhitespaceChars /\ \A j \in 1..(i - 1) : s[j] \in WhitespaceChars
    IN  SubSeq(s, first, Len(s))

\* C2: once one value has been consumed from the start of the input, parse
\* returns Ok (with that value) exactly when all that remains is made of the
\* four whitespace characters; otherwise it returns TrailingCharacters whose
\* text names the remainder without its leading whitespace, and no Value.
C2_OkOnlyIfRestIsWhitespace ==
    (pc = "parsed" /\ gen.state = "value") =>
        LET trail == Drop(input, gen.mark) IN
        IF AllWhitespace(trail)
        THEN result = [kind |-> "Ok", v |-> gen.sample]
        ELSE result = Err(TrailingCharacters("Unexpected characters after JSON value: '{}'",
                                             AfterLeadingWhitespace(trail)))

\* a value, then whitespace, then something else: TrailingCharacters names
\* what follows the whitespace
C2_Witness ==
    /\ pc = "parsed"
    /\ gen.state = "value"
    /\ Len(input) - gen.mark = 3
    /\ input[gen.mark + 1] \in WhitespaceChars
    /\ input[gen.mark + 2] \notin WhitespaceChars
    /\ IsErr(result, "TrailingCharacters")
    /\ result.err.arg = Drop(input, gen.mark + 1)

(***************************************************************************)
(* SpecObj: an object written token by token.  gen.members are the         *)
(* <<key, Value>> pairs written so far, in text order; gen.mark is the     *)
(* length of the input right after the last key or member value; gen.state *)
(* is what the grammar expects next, or "noColon" / "noSep" once something *)
(* else than ':' (than ',' or '}') has been written there.                 *)
(***************************************************************************)
MaxMembers == 3

\* "a" and "b"
KeyNames == {<<97>>, <<98>>}

\* a text and its Value: 1  2  {"b":1,"b":2}
MemberSamples ==
    { <<<<49>>, Number(One)>>,
      <<<<50>>, Number(Two)>>,
      <<<<LBrace, Quote, 98, Quote, Colon, 49, Comma, Quote, 98, Quote, Colon, 50, RBrace>>,
        Object(<< <<(<<98>>), Number(Two)>> >>)>> }

\* whitespace written between a key or value and what follows it
Gaps == {<<>>, <<Space>>, <<LineFeed, Space>>}

\* what may stand where ':' is expected: nothing (the input ends), x, "b", }, 1
JunkAfterKey == {<<>>, <<120>>, <<Quote, 98, Quote, RBrace>>, <<RBrace>>, <<49>>}

\* what may stand where ',' or '}' is expected: nothing, x, "b":1}, :, ]
JunkAfterValue == {<<>>, <<120>>, <<Quote, 98, Quote, Colon, 49, RBrace>>, <<Colon>>, <<RBracket>>}

InitObj == InitWith(<<LBrace>>, GenInit("obj", "expectKey"))

ObjKey ==
    \E k \in KeyNames :
        /\ pc = "build"
        /\ gen.state = "expectKey"
        /\ gen.n < MaxMembers
        /\ input' = input \o <<Quote>> \o k \o <<Quote>>
        /\ gen' = [gen EXCEPT !.state = "afterKey", !.key = k, !.n = @ + 1, !.mark = Len(input')]
        /\ UNCHANGED <<pc, result, formatted, result2>>

ObjColon ==
    /\ pc = "build"
    /\ gen.state = "afterKey"
    /\ input' = Append(input, Colon)
    /\ gen' = [gen EXCEPT !.state = "expectValue"]
    /\ UNCHANGED <<pc, result, formatted, result2>>

ObjValue ==
    \E v \in MemberSamples :
        /\ pc = "build"
        /\ gen.state = "expectValue"
        /\ input' = input \o v[1]
        /\ gen' = [gen EXCEPT !.state = "afterValue", !.mark = Len(input'),
                              !.members = Append(@, <<gen.key, v[2]>>)]
        /\ UNCHANGED <<pc, result, formatted, result2>>

ObjComma ==
    /\ pc = "build"
    /\ gen.state = "afterValue"
    /\ input' = Append(input, Comma)
    /\ gen' = [gen EXCEPT !.state = "expectKey"]
    /\ UNCHANGED <<pc, result, formatted, result2>>

ObjClose ==
    /\ pc = "build"
    /\ gen.state = "afterValue"
    /\ input' = Append(input, RBrace)
    /\ gen' = [gen EXCEPT !.state = "closed"]
    /\ UNCHANGED <<pc, result, formatted, result2>>

\* after a key: whitespace, then something that is not ':'
ObjNoColon ==
    \E w \in Gaps, j \in JunkAfterKey :
        /\ pc = "build"
        /\ gen.state = "afterKey"
        /\ input' = input \o w \o j
        /\ gen' = [gen EXCEPT !.state = "noColon", !.ws = Len(w)]
        /\ UNCHANGED <<pc, result, formatted, result2>>

\* after a member value: whitespace, then something that is not ',' or '}'
ObjNoSeparator ==
    \E w \in Gaps, j \in JunkAfterValue :
        /\ pc = "build"
        /\ gen.state = "afterValue"
        /\ input' = input \o w \o j
        /\ gen' = [gen EXCEPT !.state = "noSep", !.ws = Len(w)]
        /\ UNCHANGED <<pc, result, formatted, result2>>

NextObj == ObjKey \/ ObjColon \/ ObjValue \/ ObjComma \/ ObjClose \/ ObjNoColon \/ ObjNoSeparator \/ Parse

SpecObj == InitObj /\ [][NextObj]_vars

\* The keys of the members in the order of their first occurrence.
RECURSIVE FirstOccurrences(_, _)
FirstOccurrences(members, seen) ==
    IF members = <<>> THEN <<>>
    ELSE IF Head(members)[1] \in seen THEN FirstOccurrences(Tail(members), seen)
    ELSE <<Head(members)[1]>> \o FirstOccurrences(Tail(members), seen \cup {Head(members)[1]})

LastOccurrence(members, k) ==
    CHOOSE i \in 1..Len(members) :
        members[i][1] = k /\ \A j \in (i + 1)..Len(members) : members[j][1] # k

\* What the claim says the Object of these members holds.
ExpectedEntries(members) ==
    LET keys == FirstOccurrences(members, {}) IN
    [i \in 1..Len(keys) |-> <<keys[i], members[LastOccurrence(members, keys[i])][2]>>]

RECURSIVE KeysUniqueEverywhere(_)
KeysUniqueEverywhere(v) ==
    IF v.type = "Object" THEN
        /\ \A i, j \in 1..Len(v.entries) : v.entries[i][1] = v.entries[j][1] => i = j
        /\ \A i \in 1..Len(v.entries) : KeysUniqueEverywhere(v.entries[i][2])
    ELSE IF v.type = "Array" THEN \A i \in 1..Len(v.items) : KeysUniqueEverywhere(v.items[i])
    ELSE TRUE

\* C3: in every Object parse returns keys are unique; a key written more
\* than once holds the value of its last occurrence at the position of its
\* first, so the Object's length is the number of distinct keys.
C3_DuplicateKeyReplacesInPlace ==
    (pc = "parsed" /\ gen.state = "closed") =>
        /\ result.kind = "Ok"
        /\ result.v = Object(ExpectedEntries(gen.members))
        /\ Len(result.v.entries) = Cardinality({gen.members[i][1] : i \in 1..Len(gen.members)})
        /\ KeysUniqueEverywhere(result.v)

\* {"a":_,"b":_,"a":_} with two different values for "a"
C3_Witness ==
    /\ pc = "parsed"
    /\ gen.state = "closed"
    /\ Len(gen.members) = 3
    /\ gen.members[1][1] = gen.members[3][1]
    /\ gen.members[1][1] # gen.members[2][1]
    /\ gen.members[1][2] # gen.members[3][2]
    /\ result.kind = "Ok"
    /\ Len(result.v.entries) = 2
    /\ result.v.entries[1] = gen.members[3]

\* C8: inside an object, a key followed (after whitespace) by something
\* that is not ':' gives MissingExpectedChar(':', R), and a member value
\* followed by something that is neither ',' nor '}' (or by the end of the
\* input) gives UnexpectedToken naming R, R being the input from right after
\* the key's or value's last character on, leading whitespace included.
C8_ObjectErrorsNameTheRest ==
    /\ (pc = "parsed" /\ gen.state \in {"afterKey", "noColon"}) =>
          result = Err(MissingExpectedChar(Colon, Drop(input, gen.mark)))
    /\ (pc = "parsed" /\ gen.state \in {"afterValue", "noSep"}) =>
          result = Err(UnexpectedToken("Expected ',' or '}' after object value. Found: '{}'",
                                       Drop(input, gen.mark)))

\* the second member's key is followed by whitespace and then not by ':'
C8_Witness ==
    /\ pc = "parsed"
    /\ gen.state = "noColon"
    /\ gen.n = 2
    /\ gen.ws > 0
    /\ Len(input) > gen.mark + gen.ws
    /\ IsErr(result, "MissingExpectedChar")
    /\ result.err.ch = Colon
    /\ result.err.arg = Drop(input, gen.mark)

(***************************************************************************)
(* SpecArr: an array written token by token, as the whole text, as the     *)
(* first element of an outer array, or as an object member's value.        *)
(* gen.mark is the length of the input right after the last element;       *)
(* gen.state is what the grammar expects next, or "noBracket" once         *)
(* something else than ',' or ']' has been written after an element.       *)
(***************************************************************************)
MaxElems == 3

ArrayContexts == {"top", "elem", "member"}

\* nothing, `[`, or `{"a":`
ArrayPrefix(ctx) ==
    IF ctx = "elem" THEN <<LBracket>>
    ELSE IF ctx = "member" THEN <<LBrace, Quote, 97, Quote, Colon>>
    ELSE <<>>

\* a text and its Value: 1  "v"  []  [2]  {}  true
ElementSamples ==
    { <<<<49>>, Number(One)>>,
      <<<<Quote, 118, Quote>>, String(<<118>>)>>,
      <<<<LBracket, RBracket>>, Array(<<>>)>>,
      <<<<LBracket, 50, RBracket>>, Array(<<Number(Two)>>)>>,
      <<<<LBrace, RBrace>>, Object(<<>>)>>,
      <<LitTrue, Boolean(TRUE)>> }

\* what may stand where ',' or ']' is expected: nothing (the input ends),
\* x, }, :, "v"], and (after whitespace) 2]
JunkAfterElement ==
    {<<>>, <<120>>, <<RBrace>>, <<Colon>>, <<Quote, 118, Quote, RBracket>>, <<50, RBracket>>}

InitArr ==
    \E ctx \in ArrayContexts :
        InitWith(ArrayPrefix(ctx) \o <<LBracket>>, GenInit(ctx, "first"))

ArrValue ==
    \E v \in ElementSamples :
        /\ pc = "build"
        /\ gen.state \in {"first", "expectValue"}
        /\ gen.n < MaxElems
        /\ input' = input \o v[1]
        /\ gen' = [gen EXCEPT !.state = "afterValue", !.n = @ + 1, !.mark = Len(input'),
                              !.members = Append(@, v[2])]
        /\ UNCHANGED <<pc, result, formatted, result2>>

ArrComma ==
    /\ pc = "build"
    /\ gen.state = "afterValue"
    /\ input' = Append(input, Comma)
    /\ gen' = [gen EXCEPT !.state = "expectValue"]
    /\ UNCHANGED <<pc, result, formatted, result2>>

ArrClose ==
    /\ pc = "build"
    /\ gen.state \in {"first", "afterValue"}
    /\ input' = Append(input, RBracket)
    /\ gen' = [gen EXCEPT !.state = "closed"]
    /\ UNCHANGED <<pc, result, formatted, result2>>

\* after an element: whitespace, then something that is not ',' or ']'
ArrNoBracket ==
    \E w \in Gaps, j \in JunkAfterElement :
        /\ pc = "build"
        /\ gen.state = "afterValue"
        /\ (j # <<>> /\ IsDigit(Head(j))) => w # <<>>
        /\ input' = input \o w \o j
        /\ gen' = [gen EXCEPT !.state = "noBracket", !.ws = Len(w)]
        /\ UNCHANGED <<pc, result, formatted, result2>>

NextArr == ArrValue \/ ArrComma \/ ArrClose \/ ArrNoBracket \/ Parse

SpecArr == InitArr /\ [][NextArr]_vars

\* C9: an array is opened, its elements so far are well-formed, and where
\* ']' is required to close it something else, or the end of the input, is
\* found: parse fails with MissingExpectedChar(']', R), R being the input
\* not consumed at that point (from right after the last element on).
C9_MissingBracketNamesTheRest ==
    (pc = "parsed" /\ gen.state \in {"afterValue", "noBracket"}) =>
        result = Err(MissingExpectedChar(RBracket, Drop(input, gen.mark)))

\* two elements, whitespace, then something that is neither ',' nor ']'
C9_Witness ==
    /\ pc = "parsed"
    /\ gen.state = "noBracket"
    /\ gen.n = 2
    /\ gen.ws > 0
    /\ Len(input) > gen.mark + gen.ws
    /\ IsErr(result, "MissingExpectedChar")
    /\ result.err.ch = RBracket
    /\ result.err.arg = Drop(input, gen.mark)

(***************************************************************************)
(* The formatter.  generate.rs is not among the sources at hand: it is     *)
(* modelled from the specification's section 4.3 (one member per line,     *)
(* each line one level deeper than its container, a comma between members, *)
(* strings with the quote, the backslash and the control characters the    *)
(* parser decodes escaped again, numbers in plain decimal notation).       *)
(***************************************************************************)
Spaces(n) == [i \in 1..n |-> Space]

Zeros(n) == [i \in 1..n |-> Digit0]

DigitChars(d) == [i \in 1..Len(d) |-> d[i] + Digit0]

\* the stored double in decimal notation
FormatF64(x) ==
    LET sign == IF x.neg THEN <<Minus>> ELSE <<>>
        d == DigitChars(x.digits)
        k == -x.exp
    IN  IF x.digits = <<>> THEN sign \o <<Digit0>>
        ELSE IF x.exp >= 0 THEN sign \o d \o Zeros(x.exp)
        ELSE IF Len(d) > k
            THEN sign \o SubSeq(d, 1, Len(d) - k) \o <<Dot>> \o SubSeq(d, Len(d) - k + 1, Len(d))
            ELSE sign \o <<Digit0, Dot>> \o Zeros(k - Len(d)) \o d

EscapeChar(c) ==
    IF c = Quote THEN <<Backslash, Quote>>
    ELSE IF c = Backslash THEN <<Backslash, Backslash>>
    ELSE IF c = Backspace THEN <<Backslash, 98>>
    ELSE IF c = FormFeed THEN <<Backslash, 102>>
    ELSE IF c = LineFeed THEN <<Backslash, 110>>
    ELSE IF c = CarriageReturn THEN <<Backslash, 114>>
    ELSE IF c = Tab THEN <<Backslash, 116>>
    ELSE <<c>>

RECURSIVE EscapeString(_)
EscapeString(str) == IF str = <<>> THEN <<>> ELSE EscapeChar(Head(str)) \o EscapeString(Tail(str))

FormatString(str) == <<Quote>> \o EscapeString(str) \o <<Quote>>

RECURSIVE FormatValue(_, _, _), FormatEntries(_, _, _), FormatItems(_, _, _)

\* the members of an object, each on its line at the given depth
FormatEntries(entries, indent, depth) ==
    IF entries = <<>> THEN <<>>
    ELSE Spaces(indent * depth) \o FormatString(Head(entries)[1]) \o <<Colon, Space>>
         \o FormatValue(Head(entries)[2], indent, depth)
         \o (IF Len(entries) > 1 THEN <<Comma>> ELSE <<>>) \o <<LineFeed>>
         \o FormatEntries(Tail(entries), indent, depth)

FormatItems(items, indent, depth) ==
    IF items = <<>> THEN <<>>
    ELSE Spaces(indent * depth) \o FormatValue(Head(items), indent, depth)
         \o (IF Len(items) > 1 THEN <<Comma>> ELSE <<>>) \o <<LineFeed>>
         \o FormatItems(Tail(items), indent, depth)

FormatValue(v, indent, depth) ==
    IF v.type = "String" THEN FormatString(v.s)
    ELSE IF v.type = "Number" THEN FormatF64(v.n)
    ELSE IF v.type = "Boolean" THEN (IF v.b THEN LitTrue ELSE LitFalse)
    ELSE IF v.type = "Null" THEN LitNull
    ELSE IF v.type = "Object" THEN
        IF v.entries = <<>> THEN <<LBrace, RBrace>>
        ELSE <<LBrace, LineFeed>> \o FormatEntries(v.entries, indent, depth + 1)
             \o Spaces(indent * depth) \o <<RBrace>>
    ELSE IF v.items = <<>> THEN <<LBracket, RBracket>>
        ELSE <<LBracket, LineFeed>> \o FormatItems(v.items, indent, depth + 1)
             \o Spaces(indent * depth) \o <<RBracket>>

generate_format(v, indent) == FormatValue(v, indent, 0)

\* lib.rs format: Ok(generate::format(&parse(input)?, 2))
format(text) ==
    LET r == parse(text) IN
    IF r.kind # "Ok" THEN r ELSE [kind |-> "Ok", s |-> generate_format(r.v, 2)]

(***************************************************************************)
(* SpecRT: parse, format, parse again, over the string tokens of SpecStr   *)
(* and the values of Spec.                                                 *)
(***************************************************************************)
InitRT == InitStr \/ InitTop

\* The call format(input).
Format ==
    /\ pc = "parsed"
    /\ pc' = "formatted"
    /\ formatted' = format(input)
    /\ UNCHANGED <<input, result, gen, result2>>

\* The call parse(s) on the text format returned.
Reparse ==
    /\ pc = "formatted"
    /\ formatted.kind = "Ok"
    /\ pc' = "reparsed"
    /\ result2' = parse(formatted.s)
    /\ UNCHANGED <<input, result, gen, formatted>>

NextRT == BuildStr \/ PickValue \/ Parse \/ Format \/ Reparse

SpecRT == InitRT /\ [][NextRT]_vars

\* Structural equality: the same variants, the same keys in the same order,
\* the same items in the same order, equal leaves.
RECURSIVE ValueEq(_, _)
ValueEq(a, b) ==
    /\ a.type = b.type
    /\ a.type = "String" => a.s = b.s
    /\ a.type = "Number" => F64Eq(a.n, b.n)
    /\ a.type = "Boolean" => a.b = b.b
    /\ a.type = "Object" =>
          /\ Len(a.entries) = Len(b.entries)
          /\ \A i \in 1..Len(a.entries) :
                /\ a.entries[i][1] = b.entries[i][1]
                /\ ValueEq(a.entries[i][2], b.entries[i][2])
    /\ a.type = "Array" =>
          /\ Len(a.items) = Len(b.items)
          /\ \A i \in 1..Len(a.items) : ValueEq(a.items[i], b.items[i])

\* C10: for a well-formed text t, parse(t) = Ok(v) implies format(t) = Ok(s)
\* and parse(s) = Ok(v') with v' structurally equal to v.
C10_RoundTrip ==
    /\ (pc \in {"formatted", "reparsed"} /\ gen.defect = "none" /\ result.kind = "Ok") =>
          formatted.kind = "Ok"
    /\ (pc = "reparsed" /\ gen.defect = "none" /\ result.kind = "Ok") =>
          (result2.kind = "Ok" /\ ValueEq(result.v, result2.v))

(***************************************************************************)
(* SpecWs: a well-formed text written token by token, with characters      *)
(* written at the token boundaries: before the first token, between two    *)
(* tokens and after the last.  gen.members are the text's tokens,          *)
(* gen.sample its Value, gen.n the number of tokens written, gen.ws the    *)
(* number of characters written at boundaries, and gen.defect is "foreign" *)
(* once one of them is not one of the four whitespace characters.          *)
(***************************************************************************)
MaxWs == 2

\* the tokens of a text, and its Value:
\*   {"a":"v","b":1}   [1,[true,null],{}]   -1.5e+1   "a b"   []   {}   false
WsSamples ==
    { << << <<LBrace>>, <<Quote, 97, Quote>>, <<Colon>>, <<Quote, 118, Quote>>, <<Comma>>,
            <<Quote, 98, Quote>>, <<Colon>>, <<49>>, <<RBrace>> >>,
         Object(<< <<(<<97>>), String(<<118>>)>>, <<(<<98>>), Number(One)>> >>) >>,
      << << <<LBracket>>, <<49>>, <<Comma>>, <<LBracket>>, LitTrue, <<Comma>>, LitNull,
            <<RBracket>>, <<Comma>>, <<LBrace>>, <<RBrace>>, <<RBracket>> >>,
         Array(<<Number(One), Array(<<Boolean(TRUE), Null>>), Object(<<>>)>>) >>,
      << << <<Minus, 49, Dot, 53, LowerE, Plus, 49>> >>,
         Number([neg |-> TRUE, digits |-> <<1, 5>>, exp |-> 0]) >>,
      << << <<Quote, 97, Space, 98, Quote>> >>, String(<<97, Space, 98>>) >>,
      << << <<LBracket>>, <<RBracket>> >>, Array(<<>>) >>,
      << << <<LBrace>>, <<RBrace>> >>, Object(<<>>) >>,
      << << LitFalse >>, Boolean(FALSE) >> }

\* characters that are not JSON whitespace: U+000B, U+000C, U+00A0, U+2028, U+FEFF
ForeignSpaces == {11, FormFeed, 160, 8232, 65279}

InitWs ==
    \E s \in WsSamples :
        InitWith(<<>>, [GenInit("ws", "tokens") EXCEPT !.members = s[1], !.sample = s[2]])

WriteToken ==
    /\ pc = "build"
    /\ gen.state = "tokens"
    /\ gen.n < Len(gen.members)
    /\ input' = input \o gen.members[gen.n + 1]
    /\ gen' = [gen EXCEPT !.n = @ + 1]
    /\ UNCHANGED <<pc, result, formatted, result2>>

\* one of the four whitespace characters at the boundary the text is at
WriteSpace ==
    \E c \in WhitespaceChars :
        /\ pc = "build"
        /\ gen.state = "tokens"
        /\ gen.ws < MaxWs
        /\ input' = Append(input, c)
        /\ gen' = [gen EXCEPT !.ws = @ + 1]
        /\ UNCHANGED <<pc, result, formatted, result2>>

\* another character at the boundary the text is at
WriteForeign ==
    \E c \in ForeignSpaces :
        /\ pc = "build"
        /\ gen.state = "tokens"
        /\ gen.defect = "none"
        /\ gen.ws < MaxWs
        /\ input' = Append(input, c)
        /\ gen' = [gen EXCEPT !.ws = @ + 1, !.defect = "foreign"]
        /\ UNCHANGED <<pc, result, formatted, result2>>

\* The call parse(input) on the whole text.
ParseWhole ==
    /\ gen.n = Len(gen.members)
    /\ Parse

NextWs == WriteToken \/ WriteSpace \/ WriteForeign \/ ParseWhole

SpecWs == InitWs /\ [][NextWs]_vars

\* C11: a text that parses to v still parses to v with any runs of space,
\* tab, line feed and carriage return inserted (or deleted) at its token
\* boundaries, the start and the end of the input included; these four
\* characters are skipped and no others.
C11_WhitespaceInsensitive ==
    (pc = "parsed" /\ gen.state = "tokens") =>
        /\ gen.defect = "none" => result = [kind |-> "Ok", v |-> gen.sample]
        /\ gen.defect = "foreign" => result.kind = "Err"

\* the object with a tab and a line feed or carriage return at its
\* boundaries, parsed to the Value of the bare text
C11_Witness ==
    /\ pc = "parsed"
    /\ gen.state = "tokens"
    /\ gen.defect = "none"
    /\ gen.ws = 2
    /\ gen.sample.type = "Object"
    /\ Len(gen.sample.entries) = 2
    /\ \E i \in 1..Len(input) : input[i] = Tab
    /\ \E i \in 1..Len(input) : input[i] \in {LineFeed, CarriageReturn}
    /\ result = [kind |-> "Ok", v |-> gen.sample]

(***************************************************************************)
(* Indexed read access, value.rs:16-38.  The outcome of an access is the   *)
(* child the returned reference points to, or the panic that aborts it.    *)
(***************************************************************************)
Ref(v) == [kind |-> "Ok", v |-> v]

\* index_str that answers Null for a key the object does not have
index_str_or_null(self, index) ==
    IF self.type = "Object"
    THEN IF \E i \in 1..Len(self.entries) : self.entries[i][1] = index
         THEN Ref(self.entries[CHOOSE i \in 1..Len(self.entries) : self.entries[i][1] = index][2])
         ELSE Ref(Null)
    ELSE Panic("&str index only allowed for Value::Object")

\* impl Index<&str> for Value; &obj[index] panics on a key that is not there
index_str(self, index) ==
    IF self.type = "Object"
    THEN IF \E i \in 1..Len(self.entries) : self.entries[i][1] = index
         THEN Ref(self.entries[CHOOSE i \in 1..Len(self.entries) : self.entries[i][1] = index][2])
         ELSE Panic("IndexMap: key not found")
    ELSE Panic("&str index only allowed for Value::Object")

\* impl Index<usize> for Value; &arr[index] panics past the end (index is
\* zero-based, the model's sequences start at 1)
index_usize(self, index) ==
    IF self.type = "Array"
    THEN IF index < Len(self.items)
         THEN Ref(self.items[index + 1])
         ELSE Panic("index out of bounds")
    ELSE Panic("integer index only allowed for Value::Array")

(***************************************************************************)
(* SpecIdx: a text is parsed and the Value is read through a path of up to *)
(* MaxPath accesses, each applied to the child the one before returned.    *)
(* gen.sample is the Value of the text, gen.members holds the Value the    *)
(* last access was applied to, gen.key the access (<<"str", key>> or       *)
(* <<"usize", index>>) and gen.n the length of the path.                   *)
(***************************************************************************)
MaxPath == 2
MaxIndex == 2

\* a text and its Value:
\*   {"a":[1,true],"b":{"a":null}}   [[1],{"a":"v"},null]   {"a":1,"a":2}
\*   [1,2,1]   []   {}   "a"   1   null   true
IdxSamples ==
    { << <<LBrace, Quote, 97, Quote, Colon, LBracket, 49, Comma>> \o LitTrue \o
         <<RBracket, Comma, Quote, 98, Quote, Colon, LBrace, Quote, 97, Quote, Colon>> \o
         LitNull \o <<RBrace, RBrace>>,
         Object(<< <<(<<97>>), Array(<<Number(One), Boolean(TRUE)>>)>>,
                   <<(<<98>>), Object(<< <<(<<97>>), Null>> >>)>> >>) >>,
      << <<LBracket, LBracket, 49, RBracket, Comma, LBrace, Quote, 97, Quote, Colon,
           Quote, 118, Quote, RBrace, Comma>> \o LitNull \o <<RBracket>>,
         Array(<<Array(<<Number(One)>>), Object(<< <<(<<97>>), String(<<118>>)>> >>), Null>>) >>,
      << <<LBrace, Quote, 97, Quote, Colon, 49, Comma, Quote, 97, Quote, Colon, 50, RBrace>>,
         Object(<< <<(<<97>>), Number(Two)>> >>) >>,
      << <<LBracket, 49, Comma, 50, Comma, 49, RBracket>>,
         Array(<<Number(One), Number(Two), Number(One)>>) >>,
      << <<LBracket, RBracket>>, Array(<<>>) >>,
      << <<LBrace, RBrace>>, Object(<<>>) >>,
      << <<Quote, 97, Quote>>, String(<<97>>) >>,
      << <<49>>, Number(One) >>,
      << LitNull, Null >>,
      << LitTrue, Boolean(TRUE) >> }

\* the keys read: "a", "b", "c" and ""
IdxKeys == { <<97>>, <<98>>, <<99>>, <<>> }

InitIdx ==
    \E s \in IdxSamples :
        InitWith(s[1], [GenInit("idx", "text") EXCEPT !.sample = s[2]])

ParseText ==
    /\ gen.state = "text"
    /\ Parse

\* the Value the next access is applied to: the root, or the child the
\* last access returned
CanIndex ==
    /\ gen.state = "text"
    /\ gen.n < MaxPath
    /\ \/ pc = "parsed" /\ result.kind = "Ok"
       \/ pc = "indexed" /\ result2.kind = "Ok"

Self == IF pc = "parsed" THEN result.v ELSE result2.v

\* &self[key]
IndexStr ==
    \E key \in IdxKeys :
        /\ CanIndex
        /\ result2' = index_str(Self, key)
        /\ pc' = "indexed"
        /\ gen' = [gen EXCEPT !.n = @ + 1, !.key = <<"str", key>>, !.members = <<Self>>]
        /\ UNCHANGED <<input, result, formatted>>

\* &self[index]
IndexUsize ==
    \E index \in 0..MaxIndex :
        /\ CanIndex
        /\ result2' = index_usize(Self, index)
        /\ pc' = "indexed"
        /\ gen' = [gen EXCEPT !.n = @ + 1, !.key = <<"usize", index>>, !.members = <<Self>>]
        /\ UNCHANGED <<input, result, formatted>>

NextIdx == ParseText \/ IndexStr \/ IndexUsize

SpecIdx == InitIdx /\ [][NextIdx]_vars

\* C12: an indexed read returns the child exactly when the variant matches
\* and the key or index is present (a string key on an Object that has the
\* key, an integer index on an Array within range); every other access
\* aborts, none returns a Value or a typed Error, and the Value is left as
\* it was.
C12_IndexReturnsChildOrAborts ==
    (pc = "indexed" /\ gen.state = "text") =>
        LET self == gen.members[1]
            present ==
                IF gen.key[1] = "str"
                THEN self.type = "Object" /\
                     \E i \in 1..Len(self.entries) : self.entries[i][1] = gen.key[2]
                ELSE self.type = "Array" /\ gen.key[2] + 1 \in 1..Len(self.items)
        IN  /\ result2.kind \in {"Ok", "Panic"}
            /\ result2.kind = "Ok" <=> present
            /\ (present /\ gen.key[1] = "str") =>
                   \E i \in 1..Len(self.entries) : self.entries[i] = <<gen.key[2], result2.v>>
            /\ (present /\ gen.key[1] = "usize") =>
                   result2 = [kind |-> "Ok", v |-> self.items[gen.key[2] + 1]]
            /\ result = [kind |-> "Ok", v |-> gen.sample]
            /\ gen.n = 1 => self = gen.sample

\* the second access of a path reads a key the inner object does not
\* have: the access aborts and the parsed Value is as it was
C12_Witness ==
    /\ pc = "indexed"
    /\ gen.state = "text"
    /\ gen.n = 2
    /\ gen.key = <<"str", <<99>>>>
    /\ gen.members[1] = Object(<< <<(<<97>>), Null>> >>)
    /\ result2 = Panic("IndexMap: key not found")
    /\ result = [kind |-> "Ok", v |-> gen.sample]

(***************************************************************************)
(* The steps of a call of parse: one event for every call of parse, value, *)
(* object, array, string and number and one for every iteration of the     *)
(* loops of object, array, string and number, in the order they happen.    *)
(* An event has the function or loop (fn), the number of characters not    *)
(* yet read where it starts (at) and the depth of the call it belongs to   *)
(* (depth, 0 for parse).  The operators follow the control flow of the     *)
(* functions and take every outcome from the functions themselves.         *)
(***************************************************************************)
Event(fn, at, depth) == [fn |-> fn, at |-> at, depth |-> depth]

RECURSIVE numberSteps(_, _, _)
numberSteps(chars, enable_sign, depth) ==
    IF chars = <<>> THEN <<>>
    ELSE LET c == Head(chars)
             here == <<Event("number loop", Len(chars), depth)>>
         IN
        IF IsDigit(c) \/ c = Dot THEN here \o numberSteps(Tail(chars), enable_sign, depth)
        ELSE IF c = LowerE \/ c = UpperE THEN here \o numberSteps(Tail(chars), TRUE, depth)
        ELSE IF (c = Minus \/ c = Plus) /\ enable_sign THEN here \o numberSteps(Tail(chars), FALSE, depth)
        ELSE here

numberCall(input0, depth) ==
    LET t == eat_whitespace(input0)
        cur_input == IF StartsWithChar(t, Minus) THEN Tail(t) ELSE t
    IN  <<Event("number", Len(input0), depth)>> \o numberSteps(cur_input, FALSE, depth)

\* the iteration that finds the end of the input starts with nothing to read
RECURSIVE stringSteps(_, _, _)
stringSteps(cur_input, i, depth) ==
    LET here == <<Event("string loop", Len(cur_input) + 1 - i, depth)>> IN
    IF i > Len(cur_input) THEN here
    ELSE LET c == cur_input[i] IN
        IF c = Quote THEN here
        ELSE IF c = Backslash THEN
            IF i + 1 > Len(cur_input) THEN here
            ELSE IF escape_char(cur_input[i + 1]) # -1 THEN here \o stringSteps(cur_input, i + 2, depth)
            ELSE IF cur_input[i + 1] = 117 THEN
                LET u == unicodeLoop(cur_input, i + 2, 4, 0) IN
                IF u.kind = "Err" THEN here
                ELSE IF ~from_u32_is_some(u.hex_val) THEN here
                ELSE here \o stringSteps(cur_input, u.next, depth)
            ELSE here
        ELSE IF c = LineFeed \/ c = CarriageReturn \/ c = Tab THEN here
        ELSE here \o stringSteps(cur_input, i + 1, depth)

stringCall(input0, depth) ==
    LET t == eat_whitespace(input0)
        here == <<Event("string", Len(input0), depth)>>
    IN  IF ~StartsWithChar(t, Quote) THEN here
        ELSE IF StartsWithChar(eat_whitespace(Tail(t)), Quote) THEN here
        ELSE here \o stringSteps(Tail(t), 1, depth)

RECURSIVE valueCall(_, _), objectCall(_, _), objectSteps(_, _), arrayCall(_, _), arraySteps(_, _)

valueCall(input0, depth) ==
    LET inp == eat_whitespace(input0)
        here == <<Event("value", Len(input0), depth)>>
    IN  IF StartsWith(inp, LitFalse) \/ StartsWith(inp, LitNull) \/ StartsWith(inp, LitTrue) THEN here
        ELSE IF StartsWithChar(inp, LBrace) THEN here \o objectCall(inp, depth + 1)
        ELSE IF StartsWithChar(inp, LBracket) THEN here \o arrayCall(inp, depth + 1)
        ELSE IF StartsWithChar(inp, Quote) THEN here \o stringCall(inp, depth + 1)
        ELSE IF StartsWithChar(inp, Minus) \/ (inp # <<>> /\ IsDigit(Head(inp)))
        THEN here \o numberCall(inp, depth + 1)
        ELSE here

\* one iteration of the loop of object and the iterations after it
objectSteps(cur_input, depth) ==
    LET here == <<Event("object loop", Len(cur_input), depth)>> \o
                stringCall(eat_whitespace(cur_input), depth + 1)
        k == string(eat_whitespace(cur_input))
    IN  IF k.kind # "Ok" THEN here
        ELSE IF ~StartsWithChar(eat_whitespace(k.rest), Colon) THEN here
        ELSE LET r == value(Tail(eat_whitespace(k.rest)))
                 upto == here \o valueCall(Tail(eat_whitespace(k.rest)), depth + 1)
             IN  IF r.kind # "Ok" THEN upto
                 ELSE IF StartsWithChar(eat_whitespace(r.rest), Comma)
                 THEN upto \o objectSteps(Tail(eat_whitespace(r.rest)), depth)
                 ELSE upto

objectCall(input0, depth) ==
    LET t == eat_whitespace(input0)
        here == <<Event("object", Len(input0), depth)>>
    IN  IF ~StartsWithChar(t, LBrace) THEN here
        ELSE IF StartsWithChar(eat_whitespace(Tail(t)), RBrace) THEN here
        ELSE here \o objectSteps(Tail(t), depth)

\* the iterations of the while loop of array from cur_input on
arraySteps(cur_input, depth) ==
    LET t == eat_whitespace(cur_input) IN
    IF StartsWithChar(t, Comma) THEN
        LET r == value(Tail(t))
            upto == <<Event("array loop", Len(cur_input), depth)>> \o valueCall(Tail(t), depth + 1)
        IN  IF r.kind # "Ok" THEN upto
            ELSE upto \o arraySteps(r.rest, depth)
    ELSE <<>>

arrayCall(input0, depth) ==
    LET t == eat_whitespace(input0)
        here == <<Event("array", Len(input0), depth)>>
    IN  IF ~StartsWithChar(t, LBracket) THEN here
        ELSE IF StartsWithChar(eat_whitespace(Tail(t)), RBracket) THEN here
        ELSE LET r == value(Tail(t))
                 upto == here \o valueCall(Tail(t), depth + 1)
             IN  IF r.kind # "Ok" THEN upto
                 ELSE upto \o arraySteps(r.rest, depth)

parseCall(text) == <<Event("parse", Len(text), 0)>> \o valueCall(text, 1)

(***************************************************************************)
(* SpecTerm: one of a few opening texts followed by up to MaxTermLen       *)
(* characters, any of them; parse is called on the text and result2 takes  *)
(* the steps of the call.                                                  *)
(***************************************************************************)
MaxTermLen == 3

\* nothing   [   [[1,   [null,   {"a":   {"a":[   {"a":true   "\   - 
TermSeeds ==
    { <<>>,
      <<LBracket>>,
      <<LBracket, LBracket, 49, Comma>>,
      <<LBracket>> \o LitNull \o <<Comma>>,
      <<LBrace, Quote, 97, Quote, Colon>>,
      <<LBrace, Quote, 97, Quote, Colon, LBracket>>,
      <<LBrace, Quote, 97, Quote, Colon>> \o LitTrue,
      <<Quote, Backslash>>,
      <<Minus>> }

\* [ ] { } " : , 1 - \ n and the space
TermChars == {LBracket, RBracket, LBrace, RBrace, Quote, Colon, Comma, 49, Minus, Backslash, 110, Space}

InitTerm ==
    \E seed \in TermSeeds :
        InitWith(seed, [GenInit("term", "chars") EXCEPT !.mark = Len(seed)])

AppendTermChar ==
    \E c \in TermChars :
        /\ pc = "build"
        /\ gen.state = "chars"
        /\ gen.n < MaxTermLen
        /\ input' = Append(input, c)
        /\ gen' = [gen EXCEPT !.n = @ + 1]
        /\ UNCHANGED <<pc, result, formatted, result2>>

\* The call parse(input), its steps recorded.
ParseSteps ==
    /\ pc = "build"
    /\ gen.state = "chars"
    /\ pc' = "parsed"
    /\ result' = parse(input)
    /\ result2' = parseCall(input)
    /\ UNCHANGED <<input, gen, formatted>>

NextTerm == AppendTermChar \/ ParseSteps

SpecTerm == InitTerm /\ [][NextTerm]_vars

\* rest is what is left of text after at least one character was taken
ProperSuffix(rest, text) ==
    /\ Len(rest) < Len(text)
    /\ rest = Drop(text, Len(text) - Len(rest))

LoopEvents == {"object loop", "array loop", "string loop", "number loop"}

\* C13: parse terminates on every finite input: a sub-parser that succeeds
\* returns a proper suffix of the input it was given, every iteration of the
\* loops of object, array, string and number starts with less left to read
\* than the one before, the number of steps and the depth of the calls are
\* bounded by the length of the input, and the call ends in Ok or in an
\* error outcome.
C13_ParseTerminates ==
    (pc = "parsed" /\ gen.state = "chars") =>
        /\ result.kind \in {"Ok", "Err", "Panic"}
        /\ \A n \in 0..Len(input) :
               LET text == Drop(input, n) IN
               /\ value(text).kind = "Ok" => ProperSuffix(value(text).rest, text)
               /\ object(text).kind = "Ok" => ProperSuffix(object(text).rest, text)
               /\ array(text).kind = "Ok" => ProperSuffix(array(text).rest, text)
               /\ string(text).kind = "Ok" => ProperSuffix(string(text).rest, text)
               /\ number(text).kind = "Ok" => ProperSuffix(number(text).rest, text)
        /\ \A i, j \in 1..Len(result2) :
               (i < j /\ result2[i].fn \in LoopEvents /\ result2[j].fn = result2[i].fn) =>
                   result2[j].at < result2[i].at
        /\ Len(result2) <= 3 * Len(input) + 3
        /\ \A i \in 1..Len(result2) : result2[i].depth <= 2 * Len(input) + 1

\* [[1,1]] : parse is Ok after the loops of array and number have run, the
\* array loop in the inner of the two nested arrays
C13_Witness ==
    /\ pc = "parsed"
    /\ gen.state = "chars"
    /\ input = <<LBracket, LBracket, 49, Comma, 49, RBracket, RBracket>>
    /\ result = [kind |-> "Ok", v |-> Array(<<Array(<<Number(One), Number(One)>>)>>)]
    /\ \E i \in 1..Len(result2) : result2[i].fn = "array loop" /\ result2[i].depth = 4
    /\ \E i \in 1..Len(result2) : result2[i].fn = "number loop"

====
